---------------------------- MODULE Spec2Model ----------------------------
(***************************************************************************)
(* A model of xpra's RFB protocol engine, src/xpra/net/rfb/rfb_protocol.py *)
(* (class RFBProtocol): the handshake and message parsers, the reader and  *)
(* writer thread loops, send(), close() and the error controller, run      *)
(* against a Connection, a Scheduler and a packet sink.                    *)
(*                                                                         *)
(* Bytes are the integers 0..255 and a bytes object is a sequence of them. *)
(* Every method of the class that another thread can observe half-way is   *)
(* cut into steps at the reads and writes of the shared attributes         *)
(* (_closed, _conn, _write_thread, _write_queue, _process_packet_cb).      *)
(***************************************************************************)
EXTENDS Integers, Sequences, FiniteSets, TLC

(***************************************************************************)
(* Bounds of the model.                                                    *)
(***************************************************************************)
\* the application threads that call send() and close()
NumCallers == 2
\* the number of send() calls the application threads make in a run
MaxSends == 2
\* Connection.write leaves at most MaxWrite bytes of a buffer unwritten
MaxWrite == 1
\* the number of reads and writes of the Connection that raise in a run
MaxFaults == 1
\* the threads that call MenuProvider.get_menu_data, one call each
NumGetters == 2
\* the number of load_menu() calls that raise in a run
MaxLoadFaults == 1
\* the number of directory-change events in a run
MaxEvents == 3
\* the seconds a run lasts
MaxTime == 11

(***************************************************************************)
(* Python's sequence operations.                                           *)
(***************************************************************************)
Min(a, b) == IF a < b THEN a ELSE b

Max(a, b) == IF a < b THEN b ELSE a

\* an index of a slice, clamped the way Python clamps it
PyIndex(i, n) == IF i < 0 THEN Max(n + i, 0) ELSE Min(i, n)

\* s[a:b]
PySlice(s, a, b) ==
    LET lo == PyIndex(a, Len(s))
        hi == PyIndex(b, Len(s))
    IN  IF lo >= hi THEN <<>> ELSE SubSeq(s, lo + 1, hi)

\* s[a:]
PyFrom(s, a) == PySlice(s, a, Len(s))

\* s.startswith(p)
StartsWith(s, p) == Len(s) >= Len(p) /\ SubSeq(s, 1, Len(p)) = p

RECURSIVE SplitAcc(_, _, _)
SplitAcc(s, sep, cur) ==
    IF s = <<>> THEN <<cur>>
    ELSE IF Head(s) = sep THEN <<cur>> \o SplitAcc(Tail(s), sep, <<>>)
    ELSE SplitAcc(Tail(s), sep, Append(cur, Head(s)))

\* s.split(sep) for a one byte separator
Split(s, sep) == SplitAcc(s, sep, <<>>)

IsSpace(b) == b \in {9, 10, 11, 12, 13, 32}

IsDigit(b) == b >= 48 /\ b <= 57

RECURSIVE LStrip(_)
LStrip(s) == IF s # <<>> /\ IsSpace(Head(s)) THEN LStrip(Tail(s)) ELSE s

RECURSIVE RStrip(_)
RStrip(s) ==
    IF s # <<>> /\ IsSpace(s[Len(s)]) THEN RStrip(SubSeq(s, 1, Len(s) - 1)) ELSE s

\* the digits of an int() literal: digits, single underscores between them
RECURSIVE DigitsOk(_, _)
DigitsOk(s, afterDigit) ==
    IF s = <<>> THEN afterDigit
    ELSE IF IsDigit(Head(s)) THEN DigitsOk(Tail(s), TRUE)
    ELSE IF Head(s) = 95 THEN afterDigit /\ Tail(s) # <<>>
                              /\ IsDigit(Head(Tail(s))) /\ DigitsOk(Tail(s), FALSE)
    ELSE FALSE

RECURSIVE DigitsVal(_, _)
DigitsVal(s, acc) ==
    IF s = <<>> THEN acc
    ELSE IF Head(s) = 95 THEN DigitsVal(Tail(s), acc)
    ELSE DigitsVal(Tail(s), 10 * acc + (Head(s) - 48))

\* int(x) for bytes x: [ok |-> FALSE] stands for the ValueError
PyInt(x) ==
    LET t == RStrip(LStrip(x))
        signed == t # <<>> /\ Head(t) \in {43, 45}
        d == IF signed THEN Tail(t) ELSE t
    IN  IF DigitsOk(d, FALSE)
        THEN [ok |-> TRUE,
              val |-> IF signed /\ Head(t) = 45 THEN 0 - DigitsVal(d, 0)
                      ELSE DigitsVal(d, 0)]
        ELSE [ok |-> FALSE, val |-> 0]

(***************************************************************************)
(* struct: big-endian ("!") layouts of B (1 byte, unsigned), H (2 bytes,   *)
(* unsigned), I (4 bytes, unsigned) and i (4 bytes, signed).               *)
(***************************************************************************)
FieldSize(c) == CASE c = "B" -> 1 [] c = "H" -> 2 [] c = "I" -> 4 [] c = "i" -> 4

RECURSIVE StructSize(_)
StructSize(fmt) == IF fmt = <<>> THEN 0 ELSE FieldSize(Head(fmt)) + StructSize(Tail(fmt))

RECURSIVE BigEndian(_, _)
BigEndian(bytes, acc) ==
    IF bytes = <<>> THEN acc ELSE BigEndian(Tail(bytes), 256 * acc + Head(bytes))

\* a signed field is read in two's complement: its first byte counts from -128
DecodeField(c, bytes) ==
    IF c = "i" /\ Head(bytes) >= 128
    THEN BigEndian(Tail(bytes), Head(bytes) - 256)
    ELSE BigEndian(bytes, 0)

\* Struct(fmt).unpack(bytes), for len(bytes) = Struct(fmt).size
RECURSIVE Unpack(_, _)
Unpack(fmt, bytes) ==
    IF fmt = <<>> THEN <<>>
    ELSE LET w == FieldSize(Head(fmt))
         IN  <<DecodeField(Head(fmt), SubSeq(bytes, 1, w))>>
                 \o Unpack(Tail(fmt), SubSeq(bytes, w + 1, Len(bytes)))

RECURSIVE EncodeUnsigned(_, _)
EncodeUnsigned(n, w) ==
    IF w = 0 THEN <<>> ELSE Append(EncodeUnsigned(n \div 256, w - 1), n % 256)

\* a negative value is written in two's complement: v + 2^31, and the sign bit
EncodeField(c, v) ==
    IF v < 0
    THEN LET b == EncodeUnsigned((v + 2147483647) + 1, 4)
         IN  <<Head(b) + 128>> \o Tail(b)
    ELSE EncodeUnsigned(v, FieldSize(c))

\* Struct(fmt).pack(*values)
RECURSIVE Pack(_, _)
Pack(fmt, values) ==
    IF fmt = <<>> THEN <<>>
    ELSE EncodeField(Head(fmt), Head(values)) \o Pack(Tail(fmt), Tail(values))

RECURSIVE Repeat(_, _)
Repeat(c, n) == IF n <= 0 THEN <<>> ELSE <<c>> \o Repeat(c, n - 1)

RECURSIVE Concat(_)
Concat(ss) == IF ss = <<>> THEN <<>> ELSE Head(ss) \o Concat(Tail(ss))


(***************************************************************************)
(* Packets handed to the packet sink.  An application packet is the list   *)
(* [packet_type, fixed fields after the type code..., trailer]: name holds *)
(* values[0], fields the other fixed values, extra the trailer.  The       *)
(* marker packets are [INVALID, msg, data] (data in extra) and             *)
(* [CONNECTION_LOST].                                                      *)
(***************************************************************************)
Pkt(name, msg, fields, extra) ==
    [name |-> name, msg |-> msg, fields |-> fields, extra |-> extra]

INVALID == "invalid"

CONNECTION_LOST == "connection-lost"

InvalidPkt(msg, data) == Pkt(INVALID, msg, <<>>, data)

LostPkt == Pkt(CONNECTION_LOST, "", <<>>, <<>>)

IsApp(p) == p.name \notin {INVALID, CONNECTION_LOST}

(***************************************************************************)
(* xpra.net.rfb.rfb_const: the parser table.  The file is not among the    *)
(* sources, so the table is written from the specification's section 4.2   *)
(* and 6: a one-byte type code maps to a name and to a fixed big-endian    *)
(* layout; SetEncodings and ClientCutText carry a trailer whose size comes *)
(* from a field of the fixed part.                                         *)
(***************************************************************************)
SetPixelFormat == 0

SetEncodings == 2

FramebufferUpdateRequest == 3

KeyEvent == 4

PointerEvent == 5

ClientCutText == 6

FileTransfer == 7

\* CLIENT_PACKET_TYPE_STR.get(ptype); "" stands for None
CLIENT_PACKET_TYPE_STR(ptype) ==
    CASE ptype = SetPixelFormat -> "SetPixelFormat"
      [] ptype = SetEncodings -> "SetEncodings"
      [] ptype = FramebufferUpdateRequest -> "FramebufferUpdateRequest"
      [] ptype = KeyEvent -> "KeyEvent"
      [] ptype = PointerEvent -> "PointerEvent"
      [] ptype = ClientCutText -> "ClientCutText"
      [] ptype = FileTransfer -> "FileTransfer"
      [] OTHER -> ""

\* PACKET_STRUCT.get(ptype); <<>> stands for None
PACKET_STRUCT(ptype) ==
    CASE ptype = SetPixelFormat ->
             <<"B", "B", "B", "B", "B", "B", "B", "B", "H", "H", "H",
               "B", "B", "B", "B", "B", "B">>
      [] ptype = SetEncodings -> <<"B", "B", "H">>
      [] ptype = FramebufferUpdateRequest -> <<"B", "B", "H", "H", "H", "H">>
      [] ptype = KeyEvent -> <<"B", "B", "B", "B", "i">>
      [] ptype = PointerEvent -> <<"B", "B", "H", "H">>
      [] ptype = ClientCutText -> <<"B", "B", "B", "B", "i">>
      [] OTHER -> <<>>

(***************************************************************************)
(* The parsers.  A parser is given the residual buffer and returns the     *)
(* number of bytes it consumed; what else it does is returned with it, in  *)
(* the order the code does it:                                             *)
(*   out     the buffers it passed to send()                               *)
(*   inv     the [INVALID, msg, data] packets it passed to invalid()       *)
(*   disp    the packets it passed to _process_packet_cb                   *)
(*   counted what it added to input_packetcount                            *)
(*   parser  the parser it made the active one ("" when it left it alone)  *)
(*   hs      its calls of handshake_complete()                             *)
(*   exc     the exception it raised ("" when none)                        *)
(***************************************************************************)
Returns(n) ==
    [ret |-> n, out |-> <<>>, inv |-> <<>>, disp |-> <<>>, counted |-> 0,
     parser |-> "", hs |-> 0, exc |-> ""]

Raises(e) == [Returns(0) EXCEPT !.exc = e]

\* an invalid() that leaves the active parser alone
invalid_keeps_parser(msg, data) ==
    [Returns(0) EXCEPT !.inv = <<InvalidPkt(msg, data)>>]

\* invalid(msg, data), lines 278-283, as the parser that called it sees it
invalid(msg, data) ==
    [Returns(0) EXCEPT !.parser = "invalid", !.inv = <<InvalidPkt(msg, data)>>]

\* an invalid_header() that also sends the peer an error reply
invalid_header_replies(data, msg) ==
    [invalid(msg, data) EXCEPT !.out = <<Pack(<<"B", "I">>, <<0, Len(msg)>>)>>]

\* invalid_header -> _invalid_header -> invalid: the hex preview only
\* lengthens the message
invalid_header(data, msg) == invalid(msg, data)

\* a discard parser that leaves the last byte
parse_invalid_one_short(packet) == Returns(Len(packet) - 1)

\* a discard parser that hands over to the message parser again
parse_invalid_resumes(packet) == [Returns(Len(packet)) EXCEPT !.parser = "rfb"]

\* _parse_invalid, lines 67-68: return len(packet)
parse_invalid(packet) == Returns(Len(packet))

PROTOCOL_VERSION == <<3, 8>>

\* "RFB "
RFB_PREFIX == <<82, 70, 66, 32>>

\* b"unsupported protocol version"
UnsupportedMsg ==
    <<117, 110, 115, 117, 112, 112, 111, 114, 116, 101, 100, 32, 112, 114,
      111, 116, 111, 99, 111, 108, 32, 118, 101, 114, 115, 105, 111, 110>>

\* struct.pack(b"!BI", 0, len(msg))+msg
ErrorReply(msg) == Pack(<<"B", "I">>, <<0, Len(msg)>>) \o msg

(***************************************************************************)
(* The security negotiation.  RFBProtocol leaves handshake_complete,       *)
(* _parse_security_handshake, _parse_challenge and _parse_security_result  *)
(* to the connection variant (they raise NotImplementedError in the base   *)
(* class) and no variant is among the sources.  The one modelled is the    *)
(* no-authentication variant of the specification's section 4.1: the       *)
(* extension point selects the security-handshake stage, which takes the   *)
(* peer's one-byte choice, and the security-result stage takes the peer's  *)
(* one-byte initialisation and establishes the message loop.               *)
(***************************************************************************)
handshake_complete == "security_handshake"

parse_security_handshake(packet) ==
    [Returns(1) EXCEPT !.parser = "security_result"]

parse_security_result(packet) == [Returns(1) EXCEPT !.parser = "rfb"]

\* tuple(int(x) for x in packet[4:11].split(b".")), line 78
VersionParts(packet) == Split(PySlice(packet, 4, 11), 46)

ProtocolVersion(packet) ==
    [i \in 1..Len(VersionParts(packet)) |-> PyInt(VersionParts(packet)[i]).val]

\* a handshake parser that waits for the 4 bytes of the prefix only
parse_protocol_handshake_early(packet) ==
    IF Len(packet) < 4 THEN Returns(0)
    ELSE IF ~StartsWith(packet, RFB_PREFIX)
    THEN invalid_header(packet, "invalid RFB protocol handshake packet header")
    ELSE IF \E i \in 1..Len(VersionParts(packet)) : ~PyInt(VersionParts(packet)[i]).ok
    THEN Raises("Exception")
    ELSE IF ProtocolVersion(packet) # PROTOCOL_VERSION
    THEN [invalid("unsupported protocol version", packet)
              EXCEPT !.out = <<ErrorReply(UnsupportedMsg)>>]
    ELSE [Returns(12) EXCEPT !.hs = 1, !.parser = handshake_complete]

\* _parse_protocol_handshake, lines 70-86
parse_protocol_handshake(packet) ==
    IF Len(packet) < 12 THEN Returns(0)
    ELSE IF ~StartsWith(packet, RFB_PREFIX)
    THEN invalid_header(packet, "invalid RFB protocol handshake packet header")
    ELSE IF \E i \in 1..Len(VersionParts(packet)) : ~PyInt(VersionParts(packet)[i]).ok
    THEN Raises("Exception")
    ELSE IF ProtocolVersion(packet) # PROTOCOL_VERSION
    THEN [invalid("unsupported protocol version", packet)
              EXCEPT !.out = <<ErrorReply(UnsupportedMsg)>>]
    ELSE [Returns(12) EXCEPT !.hs = 1, !.parser = handshake_complete]

\* the application packet _parse_rfb builds: values, with values[0] the name
AppPkt(packet_type, values, extra) == Pkt(packet_type, "", Tail(values), extra)

Dispatches(p, size) == [Returns(size) EXCEPT !.disp = <<p>>, !.counted = 1]

\* a trailer of 16-bit integers
EncodingsStructShort(N) == Repeat("H", N)

\* line 121: struct.Struct(b"!"+b"i"*N)
EncodingsStruct(N) == Repeat("i", N)

parse_rfb(packet) ==
    LET ptype == packet[1]
        packet_type == CLIENT_PACKET_TYPE_STR(ptype)
        s == PACKET_STRUCT(ptype)
        ssize == StructSize(s)
        values == Unpack(s, SubSeq(packet, 1, ssize))
    IN  IF packet_type = ""
        THEN invalid("unknown RFB packet type", packet)
        ELSE IF s = <<>>
        THEN invalid("RFB packet type is not supported", packet)
        ELSE IF Len(packet) < ssize THEN Returns(0)
        ELSE IF ptype = SetEncodings
        THEN LET N == values[3]
                 estruct == EncodingsStruct(N)
                 size == ssize + StructSize(estruct)
             IN  IF Len(packet) < size THEN Returns(0)
                 ELSE Dispatches(AppPkt(packet_type, values,
                                        Unpack(estruct, PySlice(packet, ssize, size))),
                                 size)
        ELSE IF ptype = ClientCutText
        THEN LET l == values[5]
                 size == ssize + l
             IN  IF Len(packet) < size THEN Returns(0)
                 ELSE Dispatches(AppPkt(packet_type, values,
                                        PySlice(packet, ssize, size)),
                                 size)
        ELSE Dispatches(AppPkt(packet_type, values, <<>>), ssize)

\* self._packet_parser(self._buffer)
CallParser(p, packet) ==
    CASE p = "handshake" -> parse_protocol_handshake(packet)
      [] p = "security_handshake" -> parse_security_handshake(packet)
      [] p = "security_result" -> parse_security_result(packet)
      [] p = "rfb" -> parse_rfb(packet)
      [] p = "invalid" -> parse_invalid(packet)

(***************************************************************************)
(* The peer.  A scenario is what the peer sends: the bytes before the      *)
(* message loop (pre), the messages (msgs, each the values of its fixed    *)
(* part and its trailer), the bytes after them (post), and the places      *)
(* where the transport may end a read (cuts; {} for any place).            *)
(***************************************************************************)
\* b"RFB 003.008\n"
Handshake38 == <<82, 70, 66, 32, 48, 48, 51, 46, 48, 48, 56, 10>>

\* b"RFB 003.003\n"
Handshake33 == <<82, 70, 66, 32, 48, 48, 51, 46, 48, 48, 51, 10>>

\* b"GET / HTTP/1"
HttpRequest == <<71, 69, 84, 32, 47, 32, 72, 84, 84, 80, 47, 49>>

\* b"RFB 00x.008\n"
HandshakeNoNumber == <<82, 70, 66, 32, 48, 48, 120, 46, 48, 48, 56, 10>>

\* the peer's security type choice and its initialisation byte
SecurityBytes == <<1, 0>>

Msg(type, fixed, ints, text) ==
    [type |-> type, fixed |-> fixed, ints |-> ints, text |-> text]

PointerMsg == Msg(PointerEvent, <<PointerEvent, 1, 10, 300>>, <<>>, <<>>)

KeyMsg == Msg(KeyEvent, <<KeyEvent, 1, 0, 0, 65>>, <<>>, <<>>)

EncodingsMsg == Msg(SetEncodings, <<SetEncodings, 0, 3>>, <<1, -1, 256>>, <<>>)

NoEncodingsMsg == Msg(SetEncodings, <<SetEncodings, 0, 0>>, <<>>, <<>>)

CutTextMsg == Msg(ClientCutText, <<ClientCutText, 0, 0, 0, 2>>, <<>>, <<104, 105>>)

UpdateRequestMsg ==
    Msg(FramebufferUpdateRequest, <<FramebufferUpdateRequest, 1, 0, 0, 640, 480>>,
        <<>>, <<>>)

PixelFormatMsg ==
    Msg(SetPixelFormat,
        <<SetPixelFormat, 0, 0, 0, 32, 24, 0, 1, 255, 255, 255, 16, 8, 0, 0, 0, 0>>,
        <<>>, <<>>)

\* the fixed part of a ClientCutText whose length field holds -9
NegativeCutText == Pack(PACKET_STRUCT(ClientCutText), <<ClientCutText, 0, 0, 0, -9>>)

\* the bytes of a message on the wire
Encode(m) ==
    Pack(PACKET_STRUCT(m.type), m.fixed) \o Pack(Repeat("i", Len(m.ints)), m.ints)
        \o m.text

\* the packet the peer means by a message
Meant(m) == Pkt(CLIENT_PACKET_TYPE_STR(m.type), "", Tail(m.fixed), m.ints \o m.text)

Scenario(pre, msgs, post, cuts) ==
    [pre |-> pre, msgs |-> msgs, post |-> post, cuts |-> cuts]

Scenarios ==
    << \* 1: a session of well-formed messages, read in any fragments
       Scenario(Handshake38 \o SecurityBytes,
                <<PointerMsg, EncodingsMsg, CutTextMsg>>, <<>>, {}),
       \* 2: the other message types
       Scenario(Handshake38 \o SecurityBytes,
                <<KeyMsg, NoEncodingsMsg, UpdateRequestMsg, PixelFormatMsg>>, <<>>, {}),
       \* 3: an unsupported version, then bytes that are a handshake, in three reads
       \* or fewer
       Scenario(Handshake33, <<>>, Handshake38, {5, 12, 24}),
       \* 4: not an RFB peer
       Scenario(HttpRequest, <<>>, <<13, 10>>, {}),
       \* 5: a version that is no number
       Scenario(HandshakeNoNumber, <<>>, <<>>, {}),
       \* 6: an unknown type code, then a well-formed message
       Scenario(Handshake38 \o SecurityBytes, <<PointerMsg>>,
                <<9>> \o Encode(PointerMsg), {}),
       \* 7: a type code with a name and no layout, then a well-formed message
       Scenario(Handshake38 \o SecurityBytes, <<>>,
                <<FileTransfer>> \o Encode(KeyMsg), {}),
       \* 8: an unsupported version, read in two halves
       Scenario(Handshake33, <<>>, <<>>, {6, 12}),
       \* 9: a handshake and one message, read whole or in two
       Scenario(Handshake38 \o SecurityBytes, <<PointerMsg>>, <<>>, {14, 20}),
       \* 10: a ClientCutText that declares a negative length, then a
       \* well-formed message
       Scenario(Handshake38 \o SecurityBytes, <<PointerMsg>>,
                NegativeCutText \o Encode(KeyMsg), {}) >>

Stream(sc) == sc.pre \o Concat([i \in 1..Len(sc.msgs) |-> Encode(sc.msgs[i])]) \o sc.post

\* the scenarios of the parser's specification, of the senders' (who start no
\* reader) and of the whole system's
ParseScenarios == 1..7

FailScenarios == {3, 5, 9}

HostileScenarios == {3, 10}

StartScenarios == {9}

SendScenarios == {8}

ThreadScenarios == {8, 9}

(***************************************************************************)
(* The threads: the reader, the scheduler's main loop, the application     *)
(* threads that call start(), send() and close(), and the writer threads   *)
(* that start_write_thread() starts.                                       *)
(***************************************************************************)
Reader == 0

Sched == 1

Callers == 11..(10 + NumCallers)

\* every send() can start a writer: the application's and the handshake's
MaxWriters == MaxSends + 1

Writers == 21..(20 + MaxWriters)

Threads == {Reader, Sched} \cup Callers \cup Writers

\* the shutdown sentinel on a queue (None)
Sentinel == <<-1>>

\* the buffer of the application's n-th send() call
SendBuf(n) == <<16 * n + 1, 16 * n + 2>>

\* a deferred call: the function, and the packet for _process_packet_cb
Call(fn, pkt) == [fn |-> fn, pkt |-> pkt]

VARIABLES
    \* RFBProtocol's attributes (conn, cb, read_thread: is it not None)
    closed, conn, cb, buffer, parser, input_packetcount, input_raw_packetcount,
    write_thread, read_thread,
    \* the Queue objects made so far and which one _write_queue is
    queues, cur,
    \* the scheduler's pending idle calls and timeouts, in the order added
    idle, timeouts,
    \* the peer: its scenario and how much of its stream has been read
    scen, pos,
    \* each thread's place, and its locals: _read's consumed, _write's buf and
    \* the queue it waits on, send's packet
    pc, consumed, wbuf, wqref, sbuf,
    \* the application: its send() calls so far, whether it called start()
    nsends, start_called,
    \* the Connection: its reads and writes that raised
    nfaults,
    \* what the collaborators saw: Connection.close() calls, bytes written to the
    \* Connection, packets given to the packet sink
    conn_close_calls, written, sink,
    \* history: terminate_queue_threads() and handshake_complete() calls, the
    \* buffers put on a write queue, a terminal failure has happened
    terminate_calls, hs_calls, enq, failed,
    \* invalid() has been called while the closed flag was false
    invalid_open

protoVars == <<closed, conn, cb, buffer, parser, input_packetcount,
               input_raw_packetcount, write_thread, read_thread, queues, cur>>

schedVars == <<idle, timeouts>>

threadVars == <<pc, consumed, wbuf, wqref, sbuf>>

envVars == <<scen, pos, nsends, start_called, nfaults, conn_close_calls, written,
            sink>>

histVars == <<terminate_calls, hs_calls, enq, failed, invalid_open>>

rfbVars == <<protoVars, schedVars, threadVars, envVars, histVars>>

(***************************************************************************)
(* xpra/server/menu_provider.py: the MenuProvider's state.                 *)
(***************************************************************************)
\* XPRA_MENU_RELOAD_DELAY, line 23, in seconds
MENU_RELOAD_DELAY == 5

\* the threads that call get_menu_data: the application's
Getters == 31..(30 + NumGetters)

\* the "load-menu-data" threads of load_menu_data: the one of setup() and one
\* for every menu_reload
MaxLoaders == MaxEvents + 1

Loaders == 41..(40 + MaxLoaders)

MenuThreads == Getters \cup Loaders

VARIABLES
    \* MenuProvider's attributes: menu_data is 0 for None and n for the dict
    \* that the n-th load_menu() call returned, load_lock is the thread that
    \* holds the Lock (0: free), dir_watchers is whether monitors are connected
    menu_data, load_lock, menu_reload_timer, dir_watchers,
    \* each thread's place in get_menu_data, the arguments of its call, its
    \* local menu_data, and whether load_menu raised in it
    mpc, margs, mlocal, mraised,
    \* the "load-menu-data" threads started so far
    loaders_started,
    \* GLib: the pending timeout sources (id and the time they are due), the
    \* ids given out so far, and the clock in seconds
    sources, next_source, now,
    \* whether setup() and cleanup() have been called
    setup_done, cleaned,
    \* history: the load_menu() calls, the directory-change events and the
    \* time of the last one, the runs of events less than MENU_RELOAD_DELAY
    \* apart, the menu_reload() calls
    load_log, events, last_event, bursts, reloads

menuVars == <<menu_data, load_lock, menu_reload_timer, dir_watchers, mpc, margs,
              mlocal, mraised, loaders_started, sources, next_source, now,
              setup_done, cleaned, load_log, events, last_event, bursts, reloads>>

\* MenuProvider.__init__, lines 55-61
MenuInit ==
    /\ menu_data = 0
    /\ load_lock = 0
    /\ menu_reload_timer = 0
    /\ dir_watchers = FALSE
    /\ mpc = [t \in MenuThreads |-> "idle"]
    /\ margs = [t \in MenuThreads |-> [force_reload |-> FALSE, wait |-> TRUE]]
    /\ mlocal = [t \in MenuThreads |-> 0]
    /\ mraised = [t \in MenuThreads |-> FALSE]
    /\ loaders_started = 0
    /\ sources = {}
    /\ next_source = 0
    /\ now = 0
    /\ setup_done = FALSE
    /\ cleaned = FALSE
    /\ load_log = <<>>
    /\ events = 0
    /\ last_event = 0
    /\ bursts = 0
    /\ reloads = 0

vars == <<rfbVars, menuVars>>

\* __init__, lines 32-54, with the scenario of the peer drawn from S
InitWith(S) ==
    /\ closed = FALSE
    /\ conn = TRUE
    /\ cb = TRUE
    /\ buffer = <<>>
    /\ parser = "handshake"
    /\ input_packetcount = 0
    /\ input_raw_packetcount = 0
    /\ write_thread = 0
    /\ read_thread = TRUE
    /\ queues = << <<>> >>
    /\ cur = 1
    /\ idle = <<>>
    /\ timeouts = <<>>
    /\ scen \in S
    /\ pos = 0
    /\ pc = [t \in Threads |->
                IF t = Reader THEN "unstarted"
                ELSE IF t \in Writers THEN "none" ELSE "idle"]
    /\ consumed = 0
    /\ wbuf = [w \in Writers |-> <<>>]
    /\ wqref = [w \in Writers |-> 0]
    /\ sbuf = [c \in Callers |-> <<>>]
    /\ nsends = 0
    /\ start_called = FALSE
    /\ nfaults = 0
    /\ conn_close_calls = 0
    /\ written = <<>>
    /\ sink = <<>>
    /\ terminate_calls = 0
    /\ hs_calls = 0
    /\ enq = <<>>
    /\ failed = FALSE
    /\ invalid_open = FALSE
    /\ MenuInit

(***************************************************************************)
(* xpra.net.protocol's exit_queue() and force_flush_queue(), and the       *)
(* Scheduler, are collaborators outside the sources: they are written from *)
(* the specification (section 3: a sentinel on the outbound queue ends the *)
(* writer loop; section 6: idle_add and timeout_add defer a call onto one  *)
(* thread).                                                                *)
(***************************************************************************)
\* exit_queue(): a new queue that holds the sentinel
exit_queue == <<Sentinel>>

\* force_flush_queue(q): what q holds afterwards
force_flush_queue(q) == <<Sentinel>>

\* where a thread goes when its close() returns, or raises
AfterClose(t) == IF t = Sched \/ t \in Callers THEN "idle" ELSE "done"

\* the thread object start_thread() makes next
NextWriter == 21 + Cardinality({w \in Writers : pc[w] # "none"})

Exceptions == {"ConnectionClosedException", "OSError", "Exception"}

\* the thread's place in the except clause of _io_thread_loop for e
ExcPc(e) ==
    CASE e = "ConnectionClosedException" -> "except_closed"
      [] e = "OSError" -> "except_oserror"
      [] e = "Exception" -> "except_other"

(***************************************************************************)
(* close(), lines 304-325, by thread t.                                    *)
(***************************************************************************)
\* a close() that does not look at the closed flag
CloseCheckIgnoresClosed(t) ==
    /\ pc[t] = "close1"
    /\ pc' = [pc EXCEPT ![t] = "close2"]
    /\ UNCHANGED <<protoVars, schedVars, consumed, wbuf, wqref, sbuf, envVars, histVars>>
    /\ UNCHANGED menuVars

\* line 306: if self._closed: return
CloseCheck(t) ==
    /\ pc[t] = "close1"
    /\ pc' = [pc EXCEPT ![t] = IF closed THEN AfterClose(t) ELSE "close2"]
    /\ UNCHANGED <<protoVars, schedVars, consumed, wbuf, wqref, sbuf, envVars, histVars>>
    /\ UNCHANGED menuVars

\* line 308: self._closed = True
CloseSet(t) ==
    /\ pc[t] = "close2"
    /\ closed' = TRUE
    /\ pc' = [pc EXCEPT ![t] = "close3"]
    /\ UNCHANGED <<conn, cb, buffer, parser, input_packetcount, input_raw_packetcount, write_thread,
                   read_thread, queues, cur, schedVars, consumed, wbuf, wqref, sbuf,
                   envVars, histVars>>
    /\ UNCHANGED menuVars

\* lines 310-316: c = self._conn; if c: c.close(), whose IOError is caught
CloseConn(t) ==
    /\ pc[t] = "close3"
    /\ conn_close_calls' = IF conn THEN conn_close_calls + 1 ELSE conn_close_calls
    /\ pc' = [pc EXCEPT ![t] = "close4"]
    /\ UNCHANGED <<protoVars, schedVars, consumed, wbuf, wqref, sbuf, scen, pos,
                   nsends, start_called, nfaults, written, sink, histVars>>
    /\ UNCHANGED menuVars

\* lines 317-318 and 333-338: self._conn = None; terminate_queue_threads()
CloseTerminate(t) ==
    /\ pc[t] = "close4"
    /\ conn' = FALSE
    /\ queues' = Append([queues EXCEPT ![cur] = force_flush_queue(queues[cur])],
                        exit_queue)
    /\ cur' = Len(queues) + 1
    /\ terminate_calls' = terminate_calls + 1
    /\ pc' = [pc EXCEPT ![t] = "close5"]
    /\ UNCHANGED <<closed, cb, buffer, parser, input_packetcount, input_raw_packetcount, write_thread,
                   read_thread, schedVars, consumed, wbuf, wqref, sbuf, envVars,
                   hs_calls, enq, failed, invalid_open>>
    /\ UNCHANGED menuVars

\* lines 320-321: self._process_packet_cb(self, [CONNECTION_LOST]), a TypeError
\* when clean() has cleared it; self.idle_add(self.clean)
CloseNotify(t) ==
    /\ pc[t] = "close5"
    /\ sink' = IF cb THEN Append(sink, LostPkt) ELSE sink
    /\ idle' = IF cb THEN Append(idle, Call("clean", LostPkt)) ELSE idle
    /\ pc' = [pc EXCEPT ![t] = AfterClose(t)]
    /\ UNCHANGED <<protoVars, timeouts, consumed, wbuf, wqref, sbuf, scen, pos,
                   nsends, start_called, nfaults, conn_close_calls, written, histVars>>
    /\ UNCHANGED menuVars

Close(t) ==
    \/ CloseCheck(t)
    \/ CloseSet(t)
    \/ CloseConn(t)
    \/ CloseTerminate(t)
    \/ CloseNotify(t)

(***************************************************************************)
(* The application threads.                                                *)
(***************************************************************************)
\* a start() that starts the reader thread itself
StartNow(c) ==
    /\ pc[c] = "idle"
    /\ ~start_called
    /\ start_called' = TRUE
    /\ pc' = [pc EXCEPT ![Reader] = "loop"]
    /\ UNCHANGED <<protoVars, schedVars, consumed, wbuf, wqref, sbuf, scen, pos, nsends,
                   nfaults, conn_close_calls, written, sink, histVars>>
    /\ UNCHANGED menuVars

\* start(), lines 159-163
Start(c) ==
    /\ pc[c] = "idle"
    /\ ~start_called
    /\ start_called' = TRUE
    /\ idle' = Append(idle, Call("start_network_read_thread", LostPkt))
    /\ UNCHANGED <<protoVars, timeouts, threadVars, scen, pos, nsends, nfaults,
                   conn_close_calls, written, sink, histVars>>
    /\ UNCHANGED menuVars

\* a call of close()
CallClose(c) ==
    /\ pc[c] = "idle"
    /\ pc' = [pc EXCEPT ![c] = "close1"]
    /\ UNCHANGED <<protoVars, schedVars, consumed, wbuf, wqref, sbuf, envVars, histVars>>
    /\ UNCHANGED menuVars

\* a call of send(packet)
CallSend(c) ==
    /\ pc[c] = "idle"
    /\ nsends < MaxSends
    /\ nsends' = nsends + 1
    /\ sbuf' = [sbuf EXCEPT ![c] = SendBuf(nsends + 1)]
    /\ pc' = [pc EXCEPT ![c] = "send1"]
    /\ UNCHANGED <<protoVars, schedVars, consumed, wbuf, wqref, scen, pos,
                   start_called, nfaults, conn_close_calls, written, sink, histVars>>
    /\ UNCHANGED menuVars

\* a send() that does not look at the closed flag
SendCheckIgnoresClosed(c) ==
    /\ pc[c] = "send1"
    /\ pc' = [pc EXCEPT ![c] = "send2"]
    /\ UNCHANGED <<protoVars, schedVars, consumed, wbuf, wqref, sbuf, envVars, histVars>>
    /\ UNCHANGED menuVars

\* lines 175-177: if self._closed: return
SendCheck(c) ==
    /\ pc[c] = "send1"
    /\ pc' = [pc EXCEPT ![c] = IF closed THEN "idle" ELSE "send2"]
    /\ UNCHANGED <<protoVars, schedVars, consumed, wbuf, wqref, sbuf, envVars, histVars>>
    /\ UNCHANGED menuVars

\* line 186: if self._write_thread is None
SendThreadCheck(c) ==
    /\ pc[c] = "send2"
    /\ pc' = [pc EXCEPT ![c] = IF write_thread = 0 THEN "send2b" ELSE "send3"]
    /\ UNCHANGED <<protoVars, schedVars, consumed, wbuf, wqref, sbuf, envVars, histVars>>
    /\ UNCHANGED menuVars

\* lines 187 and 190-192: start_write_thread()
SendStartThread(c) ==
    /\ pc[c] = "send2b"
    /\ NextWriter \in Writers
    /\ write_thread' = NextWriter
    /\ pc' = [pc EXCEPT ![c] = "send3", ![NextWriter] = "wloop"]
    /\ UNCHANGED <<closed, conn, cb, buffer, parser, input_packetcount, input_raw_packetcount, read_thread,
                   queues, cur, schedVars, consumed, wbuf, wqref, sbuf, envVars,
                   histVars>>
    /\ UNCHANGED menuVars

\* line 188: self._write_queue.put(packet)
SendPut(c) ==
    /\ pc[c] = "send3"
    /\ queues' = [queues EXCEPT ![cur] = Append(queues[cur], sbuf[c])]
    /\ enq' = Append(enq, sbuf[c])
    /\ pc' = [pc EXCEPT ![c] = "idle"]
    /\ UNCHANGED <<closed, conn, cb, buffer, parser, input_packetcount, input_raw_packetcount, write_thread,
                   read_thread, cur, schedVars, consumed, wbuf, wqref, sbuf, envVars,
                   terminate_calls, hs_calls, failed, invalid_open>>
    /\ UNCHANGED menuVars

Send(c) ==
    \/ SendCheck(c)
    \/ SendThreadCheck(c)
    \/ SendStartThread(c)
    \/ SendPut(c)

(***************************************************************************)
(* The except clauses of _io_thread_loop, lines 200-212, in I/O thread t.  *)
(***************************************************************************)
\* ConnectionClosedException: _connection_lost() unless closed
ExceptClosed(t) ==
    /\ pc[t] = "except_closed"
    /\ pc' = [pc EXCEPT ![t] = IF closed THEN "done" ELSE "close1"]
    /\ failed' = (failed \/ ~closed)
    /\ UNCHANGED <<protoVars, schedVars, consumed, wbuf, wqref, sbuf, envVars,
                   terminate_calls, hs_calls, enq, invalid_open>>
    /\ UNCHANGED menuVars

\* OSError: _internal_error() unless closed, lines 260-270, which defers
\* _connection_lost onto the scheduler
ExceptOSError(t) ==
    /\ pc[t] = "except_oserror"
    /\ idle' = IF closed THEN idle ELSE Append(idle, Call("connection_lost", LostPkt))
    /\ pc' = [pc EXCEPT ![t] = "done"]
    /\ failed' = (failed \/ ~closed)
    /\ UNCHANGED <<protoVars, timeouts, consumed, wbuf, wqref, sbuf, envVars,
                   terminate_calls, hs_calls, enq, invalid_open>>
    /\ UNCHANGED menuVars

\* an except clause that calls close() whatever the closed flag
ExceptOtherCloses(t) ==
    /\ pc[t] = "except_other"
    /\ pc' = [pc EXCEPT ![t] = "close1"]
    /\ failed' = (failed \/ ~closed)
    /\ UNCHANGED <<protoVars, schedVars, consumed, wbuf, wqref, sbuf, envVars,
                   terminate_calls, hs_calls, enq, invalid_open>>
    /\ UNCHANGED menuVars

\* any other exception: close() unless closed
ExceptOther(t) ==
    /\ pc[t] = "except_other"
    /\ pc' = [pc EXCEPT ![t] = IF closed THEN "done" ELSE "close1"]
    /\ failed' = (failed \/ ~closed)
    /\ UNCHANGED <<protoVars, schedVars, consumed, wbuf, wqref, sbuf, envVars,
                   terminate_calls, hs_calls, enq, invalid_open>>
    /\ UNCHANGED menuVars

Except(t) ==
    \/ ExceptClosed(t)
    \/ ExceptOSError(t)
    \/ ExceptOther(t)

(***************************************************************************)
(* The reader thread: _read_thread_loop and _read, lines 234-258.          *)
(***************************************************************************)
\* line 197: while not self._closed; lines 237-239: c = self._conn, if not c
ReadLoop ==
    /\ pc[Reader] = "loop"
    /\ pc' = [pc EXCEPT ![Reader] = IF closed \/ ~conn THEN "done" ELSE "read"]
    /\ UNCHANGED <<protoVars, schedVars, consumed, wbuf, wqref, sbuf, envVars, histVars>>
    /\ UNCHANGED menuVars

\* where a read that starts at pos may end
ReadEnds ==
    {n \in (pos + 1)..Len(Stream(Scenarios[scen])) :
        Scenarios[scen].cuts = {} \/ n \in Scenarios[scen].cuts}

\* a _read that keeps no residual buffer between reads
ReceivedDropsResidual(buf, chunk) == chunk

\* line 251: self._buffer += buf
Received(buf, chunk) == buf \o chunk

\* lines 240 and 250-251: c.read() returns bytes; self._buffer += buf
ReadData ==
    /\ pc[Reader] = "read"
    /\ conn_close_calls = 0
    /\ \E n \in ReadEnds :
          /\ buffer' = Received(buffer, SubSeq(Stream(Scenarios[scen]), pos + 1, n))
          /\ pos' = n
    /\ input_raw_packetcount' = input_raw_packetcount + 1
    /\ pc' = [pc EXCEPT ![Reader] = "parse"]
    /\ UNCHANGED <<closed, conn, cb, parser, input_packetcount, write_thread,
                   read_thread, queues, cur, schedVars, consumed, wbuf, wqref, sbuf,
                   scen, nsends, start_called, nfaults, conn_close_calls, written, sink,
                   histVars>>
    /\ UNCHANGED menuVars

\* a _read that calls close() itself on an empty read
ReadEofCloses ==
    /\ pc[Reader] = "read"
    /\ pos = Len(Stream(Scenarios[scen])) \/ conn_close_calls > 0
    /\ failed' = TRUE
    /\ pc' = [pc EXCEPT ![Reader] = "close1"]
    /\ UNCHANGED <<protoVars, schedVars, consumed, wbuf, wqref, sbuf, envVars,
                   terminate_calls, hs_calls, enq, invalid_open>>
    /\ UNCHANGED menuVars

\* a _read that ends its thread on an empty read and schedules nothing
ReadEofSilent ==
    /\ pc[Reader] = "read"
    /\ pos = Len(Stream(Scenarios[scen])) \/ conn_close_calls > 0
    /\ failed' = TRUE
    /\ pc' = [pc EXCEPT ![Reader] = "done"]
    /\ UNCHANGED <<protoVars, schedVars, consumed, wbuf, wqref, sbuf, envVars,
                   terminate_calls, hs_calls, enq, invalid_open>>
    /\ UNCHANGED menuVars

\* lines 242-247: an empty read, when the peer has sent everything or the
\* Connection is closed; self.timeout_add(1000, self.close)
ReadEof ==
    /\ pc[Reader] = "read"
    /\ pos = Len(Stream(Scenarios[scen])) \/ conn_close_calls > 0
    /\ timeouts' = Append(timeouts, Call("close", LostPkt))
    /\ failed' = TRUE
    /\ pc' = [pc EXCEPT ![Reader] = "done"]
    /\ UNCHANGED <<protoVars, idle, consumed, wbuf, wqref, sbuf, envVars,
                   terminate_calls, hs_calls, enq, invalid_open>>
    /\ UNCHANGED menuVars

\* c.read() raises
ReadRaise ==
    /\ pc[Reader] = "read"
    /\ nfaults < MaxFaults
    /\ nfaults' = nfaults + 1
    /\ \E e \in Exceptions : pc' = [pc EXCEPT ![Reader] = ExcPc(e)]
    /\ UNCHANGED <<protoVars, schedVars, consumed, wbuf, wqref, sbuf, scen, pos, nsends,
                   start_called, conn_close_calls, written, sink, histVars>>
    /\ UNCHANGED menuVars

\* a _read that drops the whole buffer after a parse
AdvanceDropsAll(buf, n) == <<>>

\* a _read that advances one byte too far
AdvanceOneMore(buf, n) == PyFrom(buf, n + 1)

\* line 257: self._buffer = self._buffer[consumed:]
Advance(buf, n) == PyFrom(buf, n)

\* the parser's send(), lines 174-188, run by the reader in one step: does it
\* put the packet, does it start the writer thread
ParserSends(eff) == eff.out # <<>> /\ ~closed

ParserStarts(eff) == ParserSends(eff) /\ write_thread = 0

\* the parser called _process_packet_cb or passed it to idle_add after
\* clean() had cleared it: a TypeError
ParserRaises(eff) == eff.exc # "" \/ ((eff.inv # <<>> \/ eff.disp # <<>>) /\ ~cb)

\* lines 253-258: one turn of the loop, consumed = self._packet_parser(self._buffer)
ReadParse ==
    /\ pc[Reader] = "parse"
    /\ buffer # <<>>
    /\ LET eff == CallParser(parser, buffer)
           rest == IF ParserRaises(eff) \/ eff.ret = 0 THEN buffer
                   ELSE Advance(buffer, eff.ret)
       IN  /\ ParserStarts(eff) => NextWriter \in Writers
           /\ parser' = IF eff.parser # "" THEN eff.parser ELSE parser
           /\ input_packetcount' = input_packetcount + eff.counted
           /\ hs_calls' = hs_calls + eff.hs
           /\ write_thread' = IF ParserStarts(eff) THEN NextWriter ELSE write_thread
           /\ queues' = IF ParserSends(eff)
                        THEN [queues EXCEPT ![cur] = queues[cur] \o eff.out]
                        ELSE queues
           /\ enq' = IF ParserSends(eff) THEN enq \o eff.out ELSE enq
           /\ sink' = IF cb THEN sink \o eff.disp ELSE sink
           /\ idle' = IF cb /\ eff.inv # <<>>
                      THEN Append(idle, Call("cb", eff.inv[1])) ELSE idle
           /\ timeouts' = IF cb /\ eff.inv # <<>>
                          THEN Append(timeouts, Call("connection_lost", LostPkt))
                          ELSE timeouts
           /\ failed' = (failed \/ eff.inv # <<>>)
           /\ invalid_open' = (invalid_open \/ (eff.inv # <<>> /\ ~closed))
           /\ consumed' = IF ParserRaises(eff) THEN consumed ELSE eff.ret
           /\ buffer' = rest
           /\ pc' = [t \in Threads |->
                       IF t = Reader
                       THEN IF ParserRaises(eff) THEN ExcPc("Exception")
                            ELSE IF eff.ret = 0 \/ rest = <<>> THEN "loop"
                            ELSE "parse"
                       ELSE IF ParserStarts(eff) /\ t = NextWriter THEN "wloop"
                       ELSE pc[t]]
    /\ UNCHANGED <<closed, conn, cb, input_raw_packetcount, read_thread, cur, wbuf, wqref,
                   sbuf, scen, pos, nsends, start_called, nfaults, conn_close_calls,
                   written, terminate_calls>>
    /\ UNCHANGED menuVars

(***************************************************************************)
(* A writer thread w: _write_thread_loop and _write, lines 214-232.        *)
(***************************************************************************)
\* line 197: while not self._closed; line 217: the queue self._write_queue is
WriteLoop(w) ==
    /\ pc[w] = "wloop"
    /\ pc' = [pc EXCEPT ![w] = IF closed THEN "done" ELSE "wget"]
    /\ wqref' = [wqref EXCEPT ![w] = IF closed THEN @ ELSE cur]
    /\ UNCHANGED <<protoVars, schedVars, consumed, wbuf, sbuf, envVars, histVars>>
    /\ UNCHANGED menuVars

\* lines 217-225: buf = get(), blocking; the sentinel: close(), return False;
\* con = self._conn; if not con: return False
WriteGet(w) ==
    /\ pc[w] = "wget"
    /\ queues[wqref[w]] # <<>>
    /\ queues' = [queues EXCEPT ![wqref[w]] = Tail(@)]
    /\ LET buf == Head(queues[wqref[w]])
       IN  /\ pc' = [pc EXCEPT ![w] = IF buf = Sentinel THEN "close1"
                                      ELSE IF ~conn THEN "done" ELSE "wwrite"]
           /\ wbuf' = [wbuf EXCEPT ![w] = IF buf = Sentinel \/ ~conn THEN <<>> ELSE buf]
    /\ UNCHANGED <<closed, conn, cb, buffer, parser, input_packetcount, input_raw_packetcount, write_thread,
                   read_thread, cur, schedVars, consumed, wqref, sbuf, envVars,
                   histVars>>
    /\ UNCHANGED menuVars

\* how many bytes a write of buf may take: all but MaxWrite of them, or more
WriteSizes(buf) == Max(1, Len(buf) - MaxWrite)..Len(buf)

\* lines 226-229: while buf and not self._closed: written = con.write(buf);
\* buf = buf[written:]
WriteBytes(w) ==
    /\ pc[w] = "wwrite"
    /\ wbuf[w] # <<>>
    /\ ~closed
    /\ \E n \in WriteSizes(wbuf[w]) :
          /\ written' = written \o SubSeq(wbuf[w], 1, n)
          /\ wbuf' = [wbuf EXCEPT ![w] = PyFrom(@, n)]
    /\ UNCHANGED <<protoVars, schedVars, pc, consumed, wqref, sbuf, scen, pos, nsends,
                   start_called, nfaults, conn_close_calls, sink, histVars>>
    /\ UNCHANGED menuVars

\* con.write() raises
WriteRaise(w) ==
    /\ pc[w] = "wwrite"
    /\ wbuf[w] # <<>>
    /\ ~closed
    /\ nfaults < MaxFaults
    /\ nfaults' = nfaults + 1
    /\ \E e \in Exceptions : pc' = [pc EXCEPT ![w] = ExcPc(e)]
    /\ UNCHANGED <<protoVars, schedVars, consumed, wbuf, wqref, sbuf, scen, pos, nsends,
                   start_called, conn_close_calls, written, sink, histVars>>
    /\ UNCHANGED menuVars

\* a _write that leaves its loop after any write
WriteDoneAnytime(w) ==
    /\ pc[w] = "wwrite"
    /\ pc' = [pc EXCEPT ![w] = "wloop"]
    /\ wbuf' = [wbuf EXCEPT ![w] = <<>>]
    /\ UNCHANGED <<protoVars, schedVars, consumed, wqref, sbuf, envVars, histVars>>
    /\ UNCHANGED menuVars

\* lines 226 and 231-232: the loop ends; return True
WriteDone(w) ==
    /\ pc[w] = "wwrite"
    /\ wbuf[w] = <<>> \/ closed
    /\ pc' = [pc EXCEPT ![w] = "wloop"]
    /\ wbuf' = [wbuf EXCEPT ![w] = <<>>]
    /\ UNCHANGED <<protoVars, schedVars, consumed, wqref, sbuf, envVars, histVars>>
    /\ UNCHANGED menuVars

Write(w) ==
    \/ WriteLoop(w)
    \/ WriteGet(w)
    \/ WriteBytes(w)
    \/ WriteRaise(w)
    \/ WriteDone(w)

(***************************************************************************)
(* The scheduler's thread runs the deferred calls one at a time: the idle  *)
(* calls in the order added, the timeouts in the order added.              *)
(***************************************************************************)
\* the call runs, with i and t the calls still pending
RunCall(call, i, t) ==
    /\ timeouts' = t
    /\ \/ /\ call.fn = "start_network_read_thread"
          \* lines 160-162: if not self._closed: self._read_thread.start()
          /\ pc' = [pc EXCEPT ![Reader] = IF closed THEN @ ELSE "loop"]
          /\ idle' = i
          /\ UNCHANGED <<protoVars, sink>>
       \/ /\ call.fn = "cb"
          \* the _process_packet_cb that invalid() passed to idle_add
          /\ sink' = Append(sink, call.pkt)
          /\ idle' = i
          /\ UNCHANGED <<protoVars, pc>>
       \/ /\ call.fn \in {"connection_lost", "close"}
          \* _connection_lost, lines 272-275, and close: self.close()
          /\ pc' = [pc EXCEPT ![Sched] = "close1"]
          /\ idle' = i
          /\ UNCHANGED <<protoVars, sink>>
       \/ /\ call.fn = "clean"
          \* clean, lines 327-331
          /\ write_thread' = 0
          /\ read_thread' = FALSE
          /\ cb' = FALSE
          /\ idle' = i
          /\ UNCHANGED <<closed, conn, buffer, parser, input_packetcount, input_raw_packetcount, queues, cur,
                         pc, sink>>
    /\ UNCHANGED <<consumed, wbuf, wqref, sbuf, scen, pos, nsends, start_called, nfaults,
                   conn_close_calls, written, histVars>>
    /\ UNCHANGED menuVars

RunIdle ==
    /\ pc[Sched] = "idle"
    /\ idle # <<>>
    /\ RunCall(Head(idle), Tail(idle), timeouts)

RunTimeout ==
    /\ pc[Sched] = "idle"
    /\ timeouts # <<>>
    /\ RunCall(Head(timeouts), idle, Tail(timeouts))

(***************************************************************************)
(* The specifications.                                                     *)
(***************************************************************************)
ReaderStep == ReadLoop \/ ReadData \/ ReadEof \/ ReadRaise \/ ReadParse \/ Except(Reader)

WriterStep == \E w \in Writers : Write(w) \/ Except(w)

SchedStep == RunIdle \/ RunTimeout

CloseStep == \E t \in Threads : Close(t)

CallerStep == \E c \in Callers : CallClose(c) \/ CallSend(c) \/ Send(c)

StartStep == \E c \in Callers : Start(c)

\* the whole system: the threads of a connection and of its owner
Init == InitWith(ThreadScenarios)

Next == StartStep \/ CallerStep \/ ReaderStep \/ WriterStep \/ SchedStep \/ CloseStep

Spec == Init /\ [][Next]_vars

\* the reader, the writers and the scheduler of a connection whose owner
\* only starts it
ParseInit == InitWith(ParseScenarios)

ParseNext == StartStep \/ ReaderStep \/ WriterStep \/ SchedStep \/ CloseStep

ParseSpec == ParseInit /\ [][ParseNext]_vars

\* the connection fails one way or another; a thread in an except clause
\* or in close() eventually takes its next step, and the scheduler runs every
\* call it was given
FailInit == InitWith(FailScenarios)

FailSpec ==
    /\ FailInit
    /\ [][ParseNext]_vars
    /\ WF_vars(SchedStep)
    /\ WF_vars(\E t \in Threads : Except(t))
    /\ WF_vars(CloseStep)

\* the reader and the scheduler of a connection whose owner starts it and
\* closes it
CloseCallStep == \E c \in Callers : CallClose(c)

StartInit == InitWith(StartScenarios)

StartNext == StartStep \/ CloseCallStep \/ ReaderStep \/ SchedStep \/ CloseStep

StartSpec == StartInit /\ [][StartNext]_vars

\* a peer that sends what no client should
HostileInit == InitWith(HostileScenarios)

HostileSpec == HostileInit /\ [][ParseNext]_vars

\* the application threads, the writers and the scheduler of a connection
\* whose owner has not started the reader
SendInit == InitWith(SendScenarios)

SendNext == CallerStep \/ WriterStep \/ RunIdle \/ CloseStep

SendSpec == SendInit /\ [][SendNext]_vars

\* the same, where every thread that can take a step eventually takes one and
\* the scheduler runs every idle call it was given
SendFairSpec ==
    /\ SendSpec
    /\ \A c \in Callers : WF_vars(Send(c))
    /\ \A w \in Writers : WF_vars(Write(w) \/ Except(w))
    /\ \A t \in Threads : WF_vars(Close(t))
    /\ WF_vars(RunIdle)

(***************************************************************************)
(* What the claims speak of.                                               *)
(***************************************************************************)
IsPrefix(a, b) == Len(a) <= Len(b) /\ a = SubSeq(b, 1, Len(a))

IsLost(p) == p.name = CONNECTION_LOST

IsInvalid(p) == p.name = INVALID

IsCbCall(call) == call.fn = "cb"

\* the application packets the packet sink was given, in order
AppPkts == SelectSeq(sink, IsApp)

\* the CONNECTION_LOST notifications the packet sink was given
LostCount == Len(SelectSeq(sink, IsLost))

\* the INVALID notifications given to the packet sink or waiting on the scheduler
InvalidCount == Len(SelectSeq(sink, IsInvalid)) + Len(SelectSeq(idle, IsCbCall))

\* the step is a turn of _read's parsing loop
ReaderParses == pc[Reader] = "parse" /\ (pc'[Reader] # "parse" \/ buffer' # buffer)

\* the peer's stream, and the packets it means by its messages
TheStream == Stream(Scenarios[scen])

MeantPkts == [i \in 1..Len(Scenarios[scen].msgs) |-> Meant(Scenarios[scen].msgs[i])]

\* the peer completes the negotiation and sends complete messages only
ValidStream ==
    Scenarios[scen].pre = Handshake38 \o SecurityBytes /\ Scenarios[scen].post = <<>>

\* the reader has read the whole stream and parsed what it read
ReadItAll == pos = Len(TheStream) /\ pc[Reader] \notin {"unstarted", "parse"}

\* the packets dispatched when the parsing loop runs on buf with parser p active
RECURSIVE ParseLoop(_, _)
ParseLoop(p, buf) ==
    IF buf = <<>> THEN <<>>
    ELSE LET eff == CallParser(p, buf)
         IN  IF eff.exc # "" \/ eff.ret = 0 THEN eff.disp
             ELSE eff.disp \o ParseLoop(IF eff.parser # "" THEN eff.parser ELSE p,
                                        Advance(buf, eff.ret))

\* the packets dispatched when the whole stream arrives in a single read
OneRead(stream) == ParseLoop("handshake", stream)

\* a big-endian signed 32-bit integer
SignedBE(b) ==
    (IF b[1] >= 128 THEN b[1] - 256 ELSE b[1]) * 16777216 + b[2] * 65536
        + b[3] * 256 + b[4]

\* the type codes that have a layout in the parser table
LayoutTypes == {0, 2, 3, 4, 5, 6}

(***************************************************************************)
(* xpra/server/menu_provider.py: MenuProvider.  get_menu_data runs on the   *)
(* thread that calls it; directory_changed, menu_reload and cleanup are     *)
(* callbacks of the GLib main loop, which runs one callback at a time and   *)
(* runs a timeout that is due before it takes an event that arrives at or   *)
(* after the time the timeout is due.                                       *)
(***************************************************************************)
\* load_menu_data, lines 107-123: start a "load-menu-data" thread that calls
\* get_menu_data(force_reload)
load_menu_data(force) ==
    /\ loaders_started < MaxLoaders
    /\ loaders_started' = loaders_started + 1
    /\ mpc' = [mpc EXCEPT ![41 + loaders_started] = "read"]
    /\ margs' = [margs EXCEPT ![41 + loaders_started] =
                                  [force_reload |-> force, wait |-> TRUE]]

\* setup, lines 63-68, with do_setup_menu_watcher (lines 83-95) connecting
\* directory_changed to the monitors
setup ==
    /\ ~setup_done
    /\ setup_done' = TRUE
    /\ dir_watchers' = TRUE
    /\ load_menu_data(FALSE)
    /\ UNCHANGED <<rfbVars, menu_data, load_lock, menu_reload_timer, mlocal, mraised,
                   sources, next_source, now, cleaned, load_log, events, last_event,
                   bursts, reloads>>

\* an application thread calls get_menu_data(force_reload, wait=wait)
CallGetMenuData(t) ==
    /\ mpc[t] = "idle"
    /\ \E force \in BOOLEAN, wait \in BOOLEAN :
          margs' = [margs EXCEPT ![t] = [force_reload |-> force, wait |-> wait]]
    /\ mpc' = [mpc EXCEPT ![t] = "read"]
    /\ UNCHANGED <<rfbVars, menu_data, load_lock, menu_reload_timer, dir_watchers,
                   mlocal, mraised, loaders_started, sources, next_source, now,
                   setup_done, cleaned, load_log, events, last_event, bursts, reloads>>

\* line 129: menu_data = self.menu_data
GetRead(t) ==
    /\ mpc[t] = "read"
    /\ mlocal' = [mlocal EXCEPT ![t] = menu_data]
    /\ mpc' = [mpc EXCEPT ![t] = "acquire"]
    /\ UNCHANGED <<rfbVars, menu_data, load_lock, menu_reload_timer, dir_watchers,
                   margs, mraised, loaders_started, sources, next_source, now,
                   setup_done, cleaned, load_log, events, last_event, bursts, reloads>>

\* line 130: self.load_lock.acquire(wait) blocks while the lock is held when
\* wait is true, and returns False at once when wait is false
GetAcquire(t) ==
    /\ mpc[t] = "acquire"
    /\ load_lock = 0 \/ ~margs[t].wait
    /\ load_lock' = IF load_lock = 0 THEN t ELSE load_lock
    /\ mpc' = [mpc EXCEPT ![t] = IF load_lock = 0 THEN "reread" ELSE "return"]
    /\ UNCHANGED <<rfbVars, menu_data, menu_reload_timer, dir_watchers, margs,
                   mlocal, mraised, loaders_started, sources, next_source, now,
                   setup_done, cleaned, load_log, events, last_event, bursts, reloads>>

\* get_menu_data without line 131: the value read before the lock is used
GetNoReread(t) ==
    /\ mpc[t] = "reread"
    /\ mpc' = [mpc EXCEPT ![t] = "load"]
    /\ UNCHANGED <<rfbVars, menu_data, load_lock, menu_reload_timer, dir_watchers,
                   margs, mlocal, mraised, loaders_started, sources, next_source, now,
                   setup_done, cleaned, load_log, events, last_event, bursts, reloads>>

\* line 131: menu_data = self.menu_data, with the lock held
GetReread(t) ==
    /\ mpc[t] = "reread"
    /\ mlocal' = [mlocal EXCEPT ![t] = menu_data]
    /\ mpc' = [mpc EXCEPT ![t] = "load"]
    /\ UNCHANGED <<rfbVars, menu_data, load_lock, menu_reload_timer, dir_watchers,
                   margs, mraised, loaders_started, sources, next_source, now,
                   setup_done, cleaned, load_log, events, last_event, bursts, reloads>>

\* the load_menu() calls that raised
LoadFaults == Len(SelectSeq(load_log, LAMBDA e : ~e.ok))

\* lines 133-136: if menu_data is None or force_reload, call load_menu(),
\* which returns the menu or raises
GetLoad(t) ==
    /\ mpc[t] = "load"
    /\ IF mlocal[t] = 0 \/ margs[t].force_reload
       THEN \E ok \in BOOLEAN :
               /\ ~ok => LoadFaults < MaxLoadFaults
               /\ load_log' = Append(load_log,
                                     [thread |-> t, force_reload |-> margs[t].force_reload,
                                      wait |-> margs[t].wait, ok |-> ok])
               /\ menu_data' = IF ok THEN Len(load_log) + 1 ELSE menu_data
               /\ mlocal' = [mlocal EXCEPT ![t] = IF ok THEN Len(load_log) + 1 ELSE @]
               /\ mraised' = [mraised EXCEPT ![t] = ~ok]
       ELSE UNCHANGED <<load_log, menu_data, mlocal, mraised>>
    /\ mpc' = [mpc EXCEPT ![t] = "release"]
    /\ UNCHANGED <<rfbVars, load_lock, menu_reload_timer, dir_watchers, margs,
                   loaders_started, sources, next_source, now, setup_done, cleaned,
                   events, last_event, bursts, reloads>>

\* lines 137-138: finally: self.load_lock.release()
GetRelease(t) ==
    /\ mpc[t] = "release"
    /\ load_lock' = 0
    /\ mpc' = [mpc EXCEPT ![t] = IF mraised[t] THEN "raised" ELSE "return"]
    /\ UNCHANGED <<rfbVars, menu_data, menu_reload_timer, dir_watchers, margs,
                   mlocal, mraised, loaders_started, sources, next_source, now,
                   setup_done, cleaned, load_log, events, last_event, bursts, reloads>>

\* line 141: return menu_data or {}; or the exception of load_menu leaves
\* get_menu_data
GetReturn(t) ==
    /\ mpc[t] \in {"return", "raised"}
    /\ mpc' = [mpc EXCEPT ![t] = "done"]
    /\ UNCHANGED <<rfbVars, menu_data, load_lock, menu_reload_timer, dir_watchers,
                   margs, mlocal, mraised, loaders_started, sources, next_source, now,
                   setup_done, cleaned, load_log, events, last_event, bursts, reloads>>

\* get_menu_data, lines 125-141
get_menu_data(t) ==
    \/ GetRead(t)
    \/ GetAcquire(t)
    \/ GetReread(t)
    \/ GetLoad(t)
    \/ GetRelease(t)
    \/ GetReturn(t)

\* cancel_menu_reload, lines 154-158: the timeout sources it leaves pending
cancel_menu_reload ==
    IF menu_reload_timer # 0
    THEN {s \in sources : s.id # menu_reload_timer}
    ELSE sources

\* schedule_menu_reload that arms a timer without cancelling the pending one
schedule_menu_reload_no_cancel ==
    /\ next_source' = next_source + 1
    /\ sources' = sources \cup {[id |-> next_source + 1,
                                 due |-> now + MENU_RELOAD_DELAY]}
    /\ menu_reload_timer' = next_source + 1

\* schedule_menu_reload, lines 160-162
schedule_menu_reload ==
    /\ next_source' = next_source + 1
    /\ sources' = cancel_menu_reload \cup {[id |-> next_source + 1,
                                            due |-> now + MENU_RELOAD_DELAY]}
    /\ menu_reload_timer' = next_source + 1

\* directory_changed, lines 84-86: a monitor reports a change
directory_changed ==
    /\ dir_watchers
    /\ events < MaxEvents
    /\ \A s \in sources : s.due > now
    /\ schedule_menu_reload
    /\ events' = events + 1
    /\ last_event' = now
    /\ bursts' = IF events = 0 \/ now - last_event >= MENU_RELOAD_DELAY
                 THEN bursts + 1 ELSE bursts
    /\ UNCHANGED <<rfbVars, menu_data, load_lock, dir_watchers, mpc, margs, mlocal,
                   mraised, loaders_started, now, setup_done, cleaned, load_log,
                   reloads>>

\* menu_reload, lines 164-168: a timeout that is due fires; it returns False,
\* which removes the source
menu_reload ==
    /\ \E s \in sources :
          /\ s.due <= now
          /\ sources' = sources \ {s}
    /\ menu_reload_timer' = 0
    /\ reloads' = reloads + 1
    /\ load_menu_data(TRUE)
    /\ UNCHANGED <<rfbVars, menu_data, load_lock, dir_watchers, mlocal, mraised,
                   next_source, now, setup_done, cleaned, load_log, events,
                   last_event, bursts>>

\* cleanup, lines 70-73: cancel_menu_reload and cancel_dir_watchers
cleanup ==
    /\ setup_done
    /\ ~cleaned
    /\ cleaned' = TRUE
    /\ sources' = cancel_menu_reload
    /\ menu_reload_timer' = 0
    /\ dir_watchers' = FALSE
    /\ UNCHANGED <<rfbVars, menu_data, load_lock, mpc, margs, mlocal, mraised,
                   loaders_started, next_source, now, setup_done, load_log, events,
                   last_event, bursts, reloads>>

\* a second passes with no timeout due
Tick ==
    /\ now < MaxTime
    /\ \A s \in sources : s.due > now
    /\ now' = now + 1
    /\ UNCHANGED <<rfbVars, menu_data, load_lock, menu_reload_timer, dir_watchers,
                   mpc, margs, mlocal, mraised, loaders_started, sources, next_source,
                   setup_done, cleaned, load_log, events, last_event, bursts, reloads>>

GetterStep == \E t \in Getters : CallGetMenuData(t)

MenuThreadStep == \E t \in MenuThreads : get_menu_data(t)

\* an unstarted RFBProtocol beside the MenuProvider
MenuInit0 == InitWith({1})

\* the callers of get_menu_data: the application's threads and the thread
\* that setup() starts
MenuNext == setup \/ GetterStep \/ MenuThreadStep

MenuSpec == MenuInit0 /\ [][MenuNext]_vars

\* the main loop: directory changes, the reload timer, cleanup, and the
\* threads that setup() and menu_reload start
ReloadNext ==
    setup \/ directory_changed \/ menu_reload \/ Tick \/ cleanup \/ MenuThreadStep

ReloadSpec == MenuInit0 /\ [][ReloadNext]_vars

(***************************************************************************)
(* The claims.                                                             *)
(***************************************************************************)
\* C1: when close() is called from several threads, the Connection's close(),
\* terminate_queue_threads() and the CONNECTION_LOST notification each happen
\* once (here: never more than once).
C1_CloseEffectsOnce ==
    conn_close_calls <= 1 /\ terminate_calls <= 1 /\ LostCount <= 1

\* C2: a send() that finds the closed flag set returns at once: it puts nothing
\* on a queue, starts no writer thread, and nothing is written to the
\* Connection or given to the packet sink.
C2_SendAfterCloseIsNoOp ==
    [][\A c \in Callers :
          (pc[c] = "send1" /\ closed /\ pc'[c] # "send1")
              => /\ pc'[c] = "idle"
                 /\ UNCHANGED <<protoVars, schedVars, written, sink, enq>>
                 /\ \A w \in Writers : pc'[w] = pc[w]]_vars

C2_Witness == \E c \in Callers : pc[c] = "send1" /\ closed /\ write_thread = 0

C4_HandshakeAccepted ==
    [][/\ (ReaderParses /\ parser = "handshake" /\ StartsWith(buffer, Handshake38))
            => /\ consumed' = 12
               /\ buffer' = SubSeq(buffer, 13, Len(buffer))
               /\ hs_calls = 0
               /\ hs_calls' = 1
               /\ UNCHANGED <<queues, enq, idle, timeouts, sink, write_thread>>
       /\ hs_calls' # hs_calls
            => (ReaderParses /\ parser = "handshake" /\ StartsWith(buffer, Handshake38))]_vars

C4_Witness ==
    /\ hs_calls = 1
    /\ consumed = 12
    /\ parser = "security_handshake"
    /\ Len(buffer) > 0
    /\ pos > 12

\* C5: a type code without a layout makes the message parser hand one INVALID
\* notification to the scheduler (there is never a second one) and activate
\* the discard parser, and once the discard parser is active the packet sink
\* is given no further application packet.
C5_UnknownType ==
    [][/\ (ReaderParses /\ parser = "rfb" /\ buffer[1] \notin LayoutTypes)
            => /\ InvalidCount = 0
               /\ InvalidCount' = 1
               /\ idle'[Len(idle')].pkt.name = INVALID
               /\ idle'[Len(idle')].pkt.extra = buffer
               /\ parser' = "invalid"
               /\ sink' = sink
               /\ consumed' = 0
       /\ parser = "invalid"
            => /\ parser' = "invalid"
               /\ AppPkts' = AppPkts
               /\ InvalidCount' = InvalidCount]_vars

C5_Witness ==
    /\ scen = 6
    /\ pos = Len(TheStream)
    /\ buffer = <<>>
    /\ parser = "invalid"
    /\ AppPkts = <<Meant(PointerMsg)>>
    /\ Len(SelectSeq(sink, IsInvalid)) = 1

\* C6: whatever the fragments a stream of complete messages is read in, once
\* it is all read the packet sink has been given the packets it is given when
\* the stream arrives in a single read.
C6_FragmentationInvariance ==
    (ValidStream /\ ReadItAll) => AppPkts = OneRead(TheStream)

C6_Witness ==
    /\ scen = 1
    /\ ReadItAll
    /\ input_raw_packetcount > 3
    /\ Len(AppPkts) = 3

\* C7: on a SetEncodings message the message parser returns 0 and dispatches
\* nothing while fewer than 4 + 4*N bytes are buffered, N being the count of
\* its fixed part; with that many it returns 4 + 4*N and dispatches one packet
\* whose trailer is the N big-endian signed 32-bit integers in wire order.
C7_SetEncodings ==
    [][(ReaderParses /\ parser = "rfb" /\ buffer[1] = 2)
          => LET n == Len(buffer)
                 N == 256 * buffer[3] + buffer[4]
                 need == 4 + 4 * N
             IN  IF n < 4 \/ n < need
                 THEN /\ consumed' = 0
                      /\ buffer' = buffer
                      /\ sink' = sink
                      /\ input_packetcount' = input_packetcount
                 ELSE /\ consumed' = need
                      /\ buffer' = SubSeq(buffer, need + 1, n)
                      /\ input_packetcount' = input_packetcount + 1
                      /\ sink' = Append(sink,
                            Pkt("SetEncodings", "", <<buffer[2], N>>,
                                [i \in 1..N |->
                                    SignedBE(SubSeq(buffer, 4 * i + 1, 4 * i + 4))]))]_vars

C7_Witness ==
    /\ consumed = 16
    /\ \E i \in 1..Len(sink) :
          sink[i].name = "SetEncodings" /\ sink[i].extra = <<1, -1, 256>>

\* C8: what has been written to the Connection is the buffers put on the
\* outbound queue, in the order they were put, up to some byte.
C8_WritesInEnqueueOrder == IsPrefix(written, Concat(enq))

\* C9: the application packets given to the packet sink are the first
\* messages of the peer's stream, in order, and all of them once a stream of
\* complete messages is read.
C9_DispatchInArrivalOrder ==
    /\ IsPrefix(AppPkts, MeantPkts)
    /\ (ValidStream /\ ReadItAll) => AppPkts = MeantPkts

C9_Witness ==
    /\ scen = 2
    /\ buffer = <<>>
    /\ AppPkts = <<Meant(KeyMsg), Meant(NoEncodingsMsg), Meant(UpdateRequestMsg),
                   Meant(PixelFormatMsg)>>

\* C10: once the reader has seen EOF, invalid() has been called, or the loop
\* of an I/O thread has ended with an exception while the closed flag was
\* false, the packet sink is eventually given CONNECTION_LOST.
C10_FailureSurfaced == failed ~> (LostCount > 0)

C10_Witness ==
    scen = 9 /\ failed /\ LostCount = 1 /\ pc[Reader] = "done" /\ idle = <<>>

\* thread t is somewhere in close()
InClose(t) == pc[t] \in {"close1", "close2", "close3", "close4", "close5"}

\* C11: the closed flag, once set, stays set, and a close() that finds it set
\* (as does every close() called after another has returned) returns at once:
\* no Connection close, no sentinel, no packet-sink call, no deferred call,
\* no attribute changed.
C11_CloseIdempotent ==
    [][/\ closed => closed'
       /\ \A t \in Threads :
             (pc[t] = "close1" /\ closed /\ pc'[t] # "close1")
                 => /\ pc'[t] = AfterClose(t)
                    /\ \A u \in Threads \ {t} : pc'[u] = pc[u]
                    /\ UNCHANGED <<protoVars, schedVars, envVars, histVars>>]_vars

\* a close() has run to its end and returned, no other is under way, and an
\* application thread calls close() again
C11_Witness ==
    /\ closed
    /\ LostCount = 1
    /\ terminate_calls = 1
    /\ \E c \in Callers :
          pc[c] = "close1" /\ \A u \in Threads \ {c} : ~InClose(u)

Started == {w \in Writers : pc[w] # "none"}

\* C13: no more than one writer thread is ever started.
C13_OneWriterThread == Cardinality(Started) <= 1

\* C14: a parser that returns a count other than 0 returns a positive one, no
\* larger than the buffer, and the buffer loses that many bytes at its front.
C14_ConsumedWithinBuffer ==
    [][(ReaderParses /\ pc'[Reader] \in {"loop", "parse"})
          => \/ consumed' = 0 /\ buffer' = buffer
             \/ /\ consumed' > 0
                /\ consumed' <= Len(buffer)
                /\ buffer' = SubSeq(buffer, consumed' + 1, Len(buffer))]_vars

\* the size of the fixed part of a message of type t
FixedSize(t) ==
    CASE t = 0 -> 20
      [] t = 2 -> 4
      [] t = 3 -> 10
      [] t = 4 -> 8
      [] t = 5 -> 6
      [] t = 6 -> 8

\* buf begins with a type code that has a layout and holds less than the
\* message: its fixed part and the trailer the fixed part declares
Truncated(buf) ==
    /\ buf # <<>>
    /\ buf[1] \in LayoutTypes
    /\ \/ Len(buf) < FixedSize(buf[1])
       \/ buf[1] = 2 /\ Len(buf) < 4 + 4 * (256 * buf[3] + buf[4])
       \/ buf[1] = 6 /\ Len(buf) < 8 + SignedBE(SubSeq(buf, 5, 8))

\* C15: the handshake parser given fewer than 12 bytes, and the message
\* parser given less than the whole of a message, return 0 and leave the
\* buffer, the active parser and the input packet counter as they were; they
\* send nothing, give the packet sink nothing and schedule nothing.
C15_TruncatedNotSurfaced ==
    [][(/\ ReaderParses
        /\ \/ parser = "handshake" /\ Len(buffer) < 12
           \/ parser = "rfb" /\ Truncated(buffer))
          => /\ consumed' = 0
             /\ pc'[Reader] = "loop"
             /\ UNCHANGED <<buffer, parser, input_packetcount, queues, enq, write_thread,
                            sink, idle, timeouts, hs_calls, failed>>]_vars

\* the reader waits for the rest of a SetEncodings whose fixed part it holds
C15_Witness ==
    /\ pc[Reader] \in {"loop", "read"}
    /\ parser = "rfb"
    /\ consumed = 0
    /\ Len(buffer) >= 4
    /\ buffer[1] = 2
    /\ Truncated(buffer)

\* C16: the discard parser, once active, stays the active parser, and a
\* parse by it empties the buffer and gives the packet sink nothing.
C16_DiscardForGood ==
    [][/\ parser = "invalid" => parser' = "invalid"
       /\ (ReaderParses /\ parser = "invalid")
            => /\ consumed' = Len(buffer)
               /\ buffer' = <<>>
               /\ pc'[Reader] = "loop"
               /\ UNCHANGED <<sink, input_packetcount, idle, timeouts, queues, enq>>]_vars

\* the bytes of the bad handshake and the two that came in a later read are
\* gone
C16_Witness ==
    /\ scen = 4
    /\ parser = "invalid"
    /\ input_raw_packetcount > 1
    /\ consumed = 14
    /\ buffer = <<>>
    /\ AppPkts = <<>>

\* the step is _read's return from a read that gave no bytes
ReaderSeesEof ==
    /\ pc[Reader] = "read"
    /\ pc'[Reader] # "read"
    /\ input_raw_packetcount' = input_raw_packetcount
    /\ nfaults' = nfaults

\* C17: on an empty read the reader hands close() to the scheduler's timer
\* and ends; it closes nothing and notifies nobody itself.  The packet sink
\* has by then been given the packet of every message complete in the bytes
\* read, and is given no other packet once the reader has ended, so the
\* CONNECTION_LOST of that close() comes after them all.
C17_EofDefersClose ==
    [][/\ ReaderSeesEof
            => /\ pc'[Reader] = "done"
               /\ timeouts' = Append(timeouts, Call("close", LostPkt))
               /\ UNCHANGED <<protoVars, idle, sink, conn_close_calls, terminate_calls>>
               /\ AppPkts = OneRead(SubSeq(TheStream, 1, pos))
       /\ pc[Reader] = "done" => AppPkts' = AppPkts]_vars

\* the close() of the timer has run after an orderly end of the stream
C17_Witness ==
    /\ scen = 1
    /\ nfaults = 0
    /\ pc[Reader] = "done"
    /\ timeouts = <<>>
    /\ sink = <<Meant(PointerMsg), Meant(EncodingsMsg), Meant(CutTextMsg), LostPkt>>

\* thread t is in an except clause of _io_thread_loop
InExcept(t) == pc[t] \in {ExcPc(e) : e \in Exceptions}

\* writer w has written: the bytes are the front of what was left of its
\* buffer, and the rest is what is left now
WroteFront(w) ==
    \E n \in 1..Len(wbuf[w]) :
        /\ written' = written \o SubSeq(wbuf[w], 1, n)
        /\ wbuf'[w] = SubSeq(wbuf[w], n + 1, Len(wbuf[w]))

\* C18, as the code has it: a writer in its write loop writes the front of
\* what is left of its buffer and keeps the rest, until nothing is left; it
\* leaves the loop with bytes left only when the closed flag is set or
\* Connection.write has raised.
C18_WritesWholeBuffer ==
    [][\A w \in Writers :
          /\ (pc[w] = "wwrite" /\ wbuf'[w] # wbuf[w] /\ pc'[w] = "wwrite")
                => (WroteFront(w) /\ ~closed)
          /\ (pc[w] = "wwrite" /\ pc'[w] # "wwrite")
                => \/ wbuf[w] = <<>> /\ pc'[w] = "wloop"
                   \/ closed /\ pc'[w] = "wloop"
                   \/ InExcept(w)']_vars

\* a writer has written the first byte of a buffer and holds the second
C18_Witness ==
    \E w \in Writers :
        /\ pc[w] = "wwrite"
        /\ ~closed
        /\ Len(wbuf[w]) = 1
        /\ written \o wbuf[w] = SendBuf(1)

\* C18, as stated: a writer leaves its write loop with bytes left only when
\* the closed flag is set.
C18_GivesUpOnlyWhenClosed ==
    [][\A w \in Writers :
          (pc[w] = "wwrite" /\ pc'[w] # "wwrite") => (wbuf[w] = <<>> \/ closed)]_vars

\* C19: once the closed flag is set, every writer thread that has been
\* started eventually ends.
C19_WritersEnd == closed ~> (\A w \in Started : pc[w] = "done")

\* C20: given 12 bytes or more that do not begin with "RFB ", the handshake
\* parser puts nothing on the outbound queue and starts no writer, hands the
\* one INVALID notification there ever is and the deferred disconnect to the
\* scheduler, activates the discard parser and returns 0.
C20_BadHeader ==
    [][/\ (/\ ReaderParses
           /\ parser = "handshake"
           /\ Len(buffer) >= 12
           /\ SubSeq(buffer, 1, 4) # <<82, 70, 66, 32>>)
            => /\ UNCHANGED <<queues, enq, write_thread, sink, buffer>>
               /\ InvalidCount = 0
               /\ idle' = Append(idle, Call("cb", idle'[Len(idle')].pkt))
               /\ IsInvalid(idle'[Len(idle')].pkt)
               /\ idle'[Len(idle')].pkt.extra = buffer
               /\ timeouts' = Append(timeouts, Call("connection_lost", LostPkt))
               /\ parser' = "invalid"
               /\ consumed' = 0
       /\ InvalidCount' <= 1]_vars

\* the INVALID notification of a peer that spoke HTTP has reached the packet
\* sink, and nothing was sent
C20_Witness ==
    /\ scen = 4
    /\ parser = "invalid"
    /\ enq = <<>>
    /\ Started = {}
    /\ Len(SelectSeq(sink, IsInvalid)) = 1
    /\ InvalidCount = 1

\* C21: start() leaves the reader thread as it is and hands one callback to
\* the scheduler's idle tick; the reader thread starts only in the step in
\* which the scheduler runs that callback, and never once the closed flag is
\* set.
C21_ReaderStartDeferred ==
    [][/\ (~start_called /\ start_called')
            => /\ pc'[Reader] = "unstarted"
               /\ idle' = Append(idle, Call("start_network_read_thread", LostPkt))
       /\ (pc[Reader] = "unstarted" /\ pc'[Reader] # "unstarted")
            => /\ ~closed
               /\ pc[Sched] = "idle"
               /\ idle # <<>>
               /\ Head(idle).fn = "start_network_read_thread"
               /\ idle' = Tail(idle)
               /\ pc'[Reader] = "loop"]_vars

\* close() was called before the scheduler ran the callback of start(): the
\* callback has run and the reader thread is not started
C21_Witness ==
    /\ start_called
    /\ closed
    /\ LostCount = 1
    /\ idle = <<>>
    /\ pc[Sched] = "idle"
    /\ pc[Reader] = "unstarted"

\* C22: an I/O thread whose except clause finds the closed flag set (as it
\* does when the read or write raised with the flag set) ends: it does not
\* enter close(), and nothing is given to the packet sink or the scheduler.
C22_ExpectedExceptionSilent ==
    [][\A t \in {Reader} \cup Writers :
          (InExcept(t) /\ closed /\ pc'[t] # pc[t])
              => /\ pc'[t] = "done"
                 /\ \A u \in Threads \ {t} : pc'[u] = pc[u]
                 /\ UNCHANGED <<protoVars, schedVars, sink, conn_close_calls,
                                terminate_calls, written>>]_vars

\* a write has raised and the closed flag is set before the writer's except
\* clause looks at it
C22_Witness == \E w \in Writers : InExcept(w) /\ closed /\ LostCount = 1

\* C23: the reference to the packet sink is still set whenever close() is
\* about to give CONNECTION_LOST to the packet sink (line 319): the deferred
\* clean() that clears it runs only after that notification.
C23_SinkSetWhenCloseNotifies ==
    \A t \in Threads : pc[t] = "close5" => cb

\* C24: the packet sink is given no application packet after it has been
\* given CONNECTION_LOST.
C24_NothingAfterLost ==
    \A i \in 1..Len(sink) : \A j \in (i + 1)..Len(sink) :
        IsLost(sink[i]) => ~IsApp(sink[j])

\* a load_menu() call made by get_menu_data(force_reload=False, wait=True)
IsPlainLoad(e) == ~e.force_reload /\ e.wait

IsPlainReturn(e) == IsPlainLoad(e) /\ e.ok

\* the threads inside the locked region of get_menu_data, lines 131-138
InLocked == {t \in MenuThreads : mpc[t] \in {"reread", "load", "release"}}

\* C25 as stated: the calls of get_menu_data with force_reload=False and
\* wait=True call load_menu() at most once in total.
C25_LoadMenuAtMostOnce ==
    Len(SelectSeq(load_log, IsPlainLoad)) <= 1

\* C25: at most one load_menu() call made by get_menu_data(force_reload=False,
\* wait=True) returns, and such a call is made only while the cache is empty;
\* the load lock is held by the one thread inside the locked region and by
\* no thread outside it, also after load_menu() raised.
C25_LoadMenuReturnsOnce ==
    /\ Len(SelectSeq(load_log, IsPlainReturn)) <= 1
    /\ \A k \in 1..Len(load_log) :
          IsPlainLoad(load_log[k]) => \A j \in 1..(k - 1) : ~load_log[j].ok
    /\ InLocked = IF load_lock = 0 THEN {} ELSE {load_lock}

\* two callers with force_reload=False and wait=True have called load_menu():
\* it raised in the first, whose lock the second then acquired
C25_Witness ==
    /\ Len(SelectSeq(load_log, IsPlainLoad)) = 2
    /\ ~load_log[1].ok
    /\ menu_data = 2
    /\ load_lock = 0
    /\ \E t \in MenuThreads : mpc[t] = "done" /\ mraised[t]

\* C26: no more than one timeout source is pending, and it is the one that
\* menu_reload_timer names; menu_reload runs MENU_RELOAD_DELAY after the last
\* directory-change event and is then the one reload of each run of events
\* less than MENU_RELOAD_DELAY apart; no such run stays without its reload
\* once the delay has passed; and after cleanup() no timeout source is pending.
C26_OneReloadTimer ==
    /\ [](/\ Cardinality(sources) <= 1
          /\ \A s \in sources : s.id = menu_reload_timer
          /\ reloads <= bursts
          /\ (events > 0 /\ ~cleaned /\ now > last_event + MENU_RELOAD_DELAY)
                => reloads = bursts
          /\ cleaned => sources = {} /\ menu_reload_timer = 0)
    /\ [][reloads' # reloads
             => /\ now >= last_event + MENU_RELOAD_DELAY
                /\ reloads' = bursts
                /\ sources' = {}]_vars

\* two runs of directory-change events, the first of two events, have each
\* caused one menu_reload
C26_Witness ==
    events = 3 /\ bursts = 2 /\ reloads = 2 /\ sources = {}

=============================================================================
